---- MODULE Spec2Model ----
(***************************************************************************)
(* Bank-statement consolidation (bank_statement_utilities.py).             *)
(*                                                                         *)
(* A table (pandas DataFrame) is a sequence of rows in positional order; a *)
(* dict is a sequence of entries in insertion order, which is the order    *)
(* Python iterates it in.  Amounts are integer-valued and far below 10^12, *)
(* the range in which Decimal arithmetic under getcontext().prec = 12 is   *)
(* exact.  In the pipeline a file name is the record of the fields         *)
(* get_file_info captures; get_file_info itself is modelled on the text of *)
(* a name.  Single functions (get_file_info, get_financial_year,           *)
(* load_file_to_dataframe, and get_historical_data and get_script_codes of *)
(* finance/securities.py) have specifications of their own, in which       *)
(* argument holds what the function is called on and returned its result.  *)
(***************************************************************************)
EXTENDS Integers, Sequences, FiniteSets, TLC

VARIABLES
    pc,             \* position in get_consolidated_statement / load_all_files
    multi,          \* directory: the two-year-named files, name and content
    disk,           \* directory: the single-year-named files, name and content
    todo,           \* load_all_files: listing still to be iterated by the running loop
    file_names,     \* load_all_files: the list of single-year names (second listing)
    continuity,     \* what are_files_continuous gave: "none", "true" or "raised"
    missing_files,  \* the list the raised error carries
    statements,     \* dict file name -> table, built by load_all_files
    bank_accounts,  \* dict account -> table, built by merge_statements
    ledger,         \* the table consolidate_statements returned
    reledger,       \* the table a second consolidation of the ledger returned
    error,          \* the exception that ended the run, "none" while there is none
    argument,       \* a single function call: what the function is called on
    attempts,       \* load_file_to_dataframe: the parsers tried so far, in order
    returned        \* a single function call: what the function gave back

vars == <<pc, multi, disk, todo, file_names, continuity, missing_files,
          statements, bank_accounts, ledger, reledger, error,
          argument, attempts, returned>>

\* the variables of a single function call, untouched by the pipeline
callVars == <<argument, attempts, returned>>

----------------------------------------------------------------------------
(* Bounds and input domains                                                *)

\* rows in all the tables handed to merge_statements together
MaxRows == 2

\* amounts of a source row: credit, debit (magnitudes) and balance
Amounts == {0, 1}

\* transaction dates of the tables handed to merge_statements
LedgerDates == { [year |-> 2022, month |-> 4, day |-> 1],
                 [year |-> 2022, month |-> 4, day |-> 2] }

Years == 2022 .. 2024

Extensions == {"csv", "xls"}

\* (bank, holder) of the single-year files
Accounts == { <<"SBI", "TS">>, <<"XYZ", "JM">> }

FileNames ==
    { [holder |-> a[2], bank |-> a[1], year |-> y, ext |-> e] :
        a \in Accounts, y \in Years, e \in Extensions }

\* file names of the tables handed to merge_statements directly
LedgerFileNames ==
    { n \in FileNames : n.ext = "csv" /\ (n.year = 2022 \/ (n.bank = "SBI" /\ n.year = 2023)) }

\* single-year files in the scanned directory at the start
MaxFiles == 3

\* the caller's mapping holder code -> name
account_holders == [h \in {"TS"} |-> "Tony Stark"]

----------------------------------------------------------------------------
(* Values                                                                  *)

Range(s) == { s[i] : i \in DOMAIN s }

RECURSIVE SumSeq(_)
SumSeq(s) == IF s = <<>> THEN 0 ELSE Head(s) + SumSeq(Tail(s))

RECURSIVE Flatten(_)
Flatten(ss) == IF ss = <<>> THEN <<>> ELSE Head(ss) \o Flatten(Tail(ss))

\* character codes of the decimal digits of n, zero-padded to width w
RECURSIVE Digits(_, _)
Digits(n, w) == IF w = 0 THEN <<>> ELSE Append(Digits(n \div 10, w - 1), 48 + (n % 10))

\* Timestamp.strftime('%Y-%m-%d'): a string, as its character codes
strftime(ts) ==
    Digits(ts.year, 4) \o <<45>> \o Digits(ts.month, 2) \o <<45>> \o Digits(ts.day, 2)

\* str < str
StrLess(a, b) ==
    \/ \E i \in 1 .. Len(a) :
          /\ i <= Len(b)
          /\ \A j \in 1 .. (i - 1) : a[j] = b[j]
          /\ a[i] < b[i]
    \/ /\ Len(a) < Len(b)
       /\ \A j \in 1 .. Len(a) : a[j] = b[j]

\* Timestamp < Timestamp
TsLess(a, b) ==
    \/ a.year < b.year
    \/ a.year = b.year /\ a.month < b.month
    \/ a.year = b.year /\ a.month = b.month /\ a.day < b.day

\* the 'bank' column enrich_statements sets; a code outside the four gets no column
BankName(code) ==
    CASE code = "BOM"   -> "Bank of Maharashtra"
      [] code = "CB"    -> "Canara Bank"
      [] code = "ICICI" -> "ICICI Bank"
      [] code = "SBI"   -> "State Bank of India"
      [] OTHER          -> "NaN"

\* account_holders.get(code, code): the code itself when it has no entry
HolderNameOrCode(code) ==
    IF code \in DOMAIN account_holders THEN account_holders[code] ELSE code

\* account_holders.get(code, None)
HolderName(code) ==
    IF code \in DOMAIN account_holders THEN account_holders[code] ELSE "None"

----------------------------------------------------------------------------
(* Tables                                                                  *)

\* a row of a per-file table after enrich_statements
StatementRow(d, c, w, b, name) ==
    [date |-> d, description |-> "txn", credit |-> c, debit |-> w, balance |-> b,
     bank |-> BankName(name.bank), account_holder |-> HolderName(name.holder)]

\* date < date in a column of the given dtype: Timestamps in the per-file and
\* merged tables, '%Y-%m-%d' strings once enrich_merged_statement has run
DateLess(a, b, dtype) ==
    IF dtype = "str" THEN StrLess(a, b) ELSE TsLess(a, b)

\* the order with ascending=[True, True]: on equal dates the smaller credit first
BeforeCreditAscending(r, q, dtype) ==
    \/ DateLess(r.date, q.date, dtype)
    \/ r.date = q.date /\ r.credit < q.credit

\* by=["date", "credit"], ascending=[True, False]
Before(r, q, dtype) ==
    \/ DateLess(r.date, q.date, dtype)
    \/ r.date = q.date /\ r.credit > q.credit

\* the placement of a sort that is not stable: a row also goes before an
\* earlier row with equal keys
PlacedBeforeOnTie(r, q, dtype) == ~Before(q, r, dtype)

\* whether row r, met after row q in the unsorted table, is placed before q:
\* only when its keys come first (a multi-key sort_values is a lexsort, which
\* is stable, so rows with equal keys keep their order)
PlacedBefore(r, q, dtype) == Before(r, q, dtype)

\* the sorted table s with row r, met after all rows of s, put in its place
RECURSIVE InsertRow(_, _, _)
InsertRow(r, s, dtype) ==
    IF s = <<>> THEN <<r>>
    ELSE IF PlacedBefore(r, Head(s), dtype)
         THEN <<r>> \o s
         ELSE <<Head(s)>> \o InsertRow(r, Tail(s), dtype)

\* DataFrame.sort_values on the two keys
RECURSIVE SortValues(_, _)
SortValues(t, dtype) ==
    IF t = <<>> THEN <<>>
    ELSE InsertRow(t[Len(t)], SortValues(SubSeq(t, 1, Len(t) - 1), dtype), dtype)

\* the dict key f"{bank_name}_{account_holder}": neither field holds an
\* underscore, so two keys are equal exactly when both fields are
AccountKey(name) == <<name.bank, name.holder>>

\* the assignment without the concat: the account keeps only the last table
ReplaceStatement(merged, statement) == statement

\* concat([bank_accounts[bank_account], statement])
ConcatStatement(merged, statement) == merged \o statement

\* index of the entry of dict d under key k, 0 when there is none
IndexOf(d, k) ==
    IF \E i \in DOMAIN d : d[i].key = k
    THEN CHOOSE i \in DOMAIN d : d[i].key = k
    ELSE 0

\* the first loop of merge_statements, over the entries of statements in order
RECURSIVE GroupStatements(_, _)
GroupStatements(stmts, accounts) ==
    IF stmts = <<>> THEN accounts
    ELSE LET s == Head(stmts)
             k == AccountKey(s.key)
             i == IndexOf(accounts, k)
         IN  IF i = 0
             THEN GroupStatements(Tail(stmts),
                                  Append(accounts, [key |-> k, table |-> s.table]))
             ELSE GroupStatements(Tail(stmts),
                                  [accounts EXCEPT ![i].table = ConcatStatement(@, s.table)])

\* merge_statements: the dict it returns
merge_statements(stmts) ==
    LET accounts == GroupStatements(stmts, <<>>)
    IN  [i \in DOMAIN accounts |->
            [accounts[i] EXCEPT !.table = SortValues(@, "datetime")]]

\* number of input files of the account with key k
FilesOfAccount(stmts, k) ==
    Cardinality({ i \in DOMAIN stmts : AccountKey(stmts[i].key) = k })

\* merge_statements: what it leaves in its argument.  The table of an account
\* with a single file is the argument's own table object, which the in-place
\* sort reorders; an account with more files holds a new, concatenated table.
statements_after_merge(stmts) ==
    [i \in DOMAIN stmts |->
        IF FilesOfAccount(stmts, AccountKey(stmts[i].key)) = 1
        THEN [stmts[i] EXCEPT !.table = SortValues(@, "datetime")]
        ELSE stmts[i]]

\* the opening balance with the two movements exchanged
OpeningBalanceReversed(first) == first.balance + (first.credit - first.debit)

\* balance before the first transaction: balance + (debit - credit)
OpeningBalance(first) == first.balance + (first.debit - first.credit)

\* the debit the synthetic row is given before the table-wide sign change
OpeningDebit(opening) == IF opening >= 0 THEN 0 ELSE opening

\* the credit the synthetic row is given
OpeningCredit(opening) == IF opening >= 0 THEN opening ELSE 0

\* the 'Balance brought forward' row built from the first row of the table
opening_transaction(first) ==
    [first EXCEPT !.description = "Balance brought forward",
                  !.balance = OpeningBalance(first),
                  !.debit = OpeningDebit(OpeningBalance(first)),
                  !.credit = OpeningCredit(OpeningBalance(first))]

\* the debit column after .assign(debit=lambda x: (- x["debit"]).apply(Decimal))
SignedDebit(debit) == 0 - debit

\* the .assign / .drop / .rename / .reindex chain applied to one row
SynthesizedRow(r) ==
    [date |-> strftime(r.date), description |-> r.description, credit |-> r.credit,
     debit |-> SignedDebit(r.debit), bank |-> r.bank, account_holder |-> r.account_holder]

\* the loop body of enrich_merged_statement for one (non-empty) table
EnrichTable(t) ==
    LET whole == <<opening_transaction(t[1])>> \o t
    IN  [i \in DOMAIN whole |-> SynthesizedRow(whole[i])]

\* enrich_merged_statement: the dict after the loop
enrich_merged_statement(accounts) ==
    [i \in DOMAIN accounts |-> [accounts[i] EXCEPT !.table = EnrichTable(@)]]

\* the amount under the sign convention of the source files, debit a magnitude
RowAmountUnsigned(r) == r.credit - r.debit

\* the amount a row adds to the running balance
RowAmount(r) == r.credit + r.debit

\* (credit + debit).cumsum() over table t, continuing from total
RECURSIVE CumSum(_, _)
CumSum(t, total) ==
    IF t = <<>> THEN <<>>
    ELSE <<total + RowAmount(Head(t))>> \o CumSum(Tail(t), total + RowAmount(Head(t)))

\* the row of the consolidated table: the balance assigned, the columns reindexed
LedgerRow(r, b) ==
    [date |-> r.date, description |-> r.description, credit |-> r.credit,
     debit |-> r.debit, balance |-> b, bank |-> r.bank,
     account_holder |-> r.account_holder]

\* the sorted table with its balance column
WithBalance(sorted, balance) ==
    [i \in DOMAIN sorted |-> LedgerRow(sorted[i], balance[i])]

\* the table sorted, then given its running balance
Balanced(sorted) == WithBalance(sorted, CumSum(sorted, 0))

\* consolidate_statements on the tables of a non-empty dict
consolidate_statements(tables) ==
    Balanced(SortValues(Flatten(tables), "str"))

TablesOf(d) == [i \in DOMAIN d |-> d[i].table]

----------------------------------------------------------------------------
(* merge_statements, enrich_merged_statement, consolidate_statements       *)

\* merge_statements(statements)
Merge ==
    /\ pc = "enriched"
    /\ bank_accounts' = merge_statements(statements)
    /\ statements' = statements_after_merge(statements)
    /\ pc' = "merged"
    /\ UNCHANGED <<multi, disk, todo, file_names, continuity, missing_files,
                   ledger, reledger, error>>
    /\ UNCHANGED callVars

\* enrich_merged_statement(bank_accounts): the dict is updated in place
EnrichMerged ==
    /\ pc = "merged"
    /\ bank_accounts' = enrich_merged_statement(bank_accounts)
    /\ pc' = "synthesized"
    /\ UNCHANGED <<multi, disk, todo, file_names, continuity, missing_files,
                   statements, ledger, reledger, error>>
    /\ UNCHANGED callVars

\* consolidate_statements(bank_accounts); concat of no tables raises ValueError
Consolidate ==
    /\ pc = "synthesized"
    /\ IF bank_accounts = <<>>
       THEN /\ error' = "ValueError"
            /\ pc' = "failed"
            /\ UNCHANGED ledger
       ELSE /\ ledger' = consolidate_statements(TablesOf(bank_accounts))
            /\ pc' = "done"
            /\ UNCHANGED error
    /\ UNCHANGED <<multi, disk, todo, file_names, continuity, missing_files,
                   statements, bank_accounts, reledger>>
    /\ UNCHANGED callVars

\* consolidate_statements({...: ledger}): the ledger consolidated again, alone
Reconsolidate ==
    /\ pc = "done"
    /\ reledger' = consolidate_statements(<<ledger>>)
    /\ pc' = "reconsolidated"
    /\ UNCHANGED <<multi, disk, todo, file_names, continuity, missing_files,
                   statements, bank_accounts, ledger, error>>
    /\ UNCHANGED callVars

\* the source fields of a row: date, credit, debit, balance
Cells == [date : LedgerDates, credit : Amounts, debit : Amounts, balance : Amounts]

\* a dict of per-file tables as enrich_statements returns it: distinct file
\* names, every table non-empty, the rows given by cells in file order
StatementsOf(names, sizes, cells) ==
    [i \in DOMAIN names |->
        [key   |-> names[i],
         table |-> [p \in 1 .. sizes[i] |->
                      LET c == cells[SumSeq(SubSeq(sizes, 1, i - 1)) + p]
                      IN  StatementRow(c.date, c.credit, c.debit, c.balance, names[i])]]]

\* the tables handed to merge_statements are the input; argument keeps them
\* as they were handed over
InitLedger ==
    /\ pc = "enriched"
    /\ \E f \in 0 .. MaxRows :
       \E names \in [1 .. f -> LedgerFileNames] :
       \E sizes \in [1 .. f -> 1 .. MaxRows] :
          /\ \A i, j \in 1 .. f : i # j => names[i] # names[j]
          /\ SumSeq(sizes) <= MaxRows
          /\ \E cells \in [1 .. SumSeq(sizes) -> Cells] :
                statements = StatementsOf(names, sizes, cells)
    /\ multi = <<>>
    /\ disk = <<>>
    /\ todo = <<>>
    /\ file_names = <<>>
    /\ continuity = "none"
    /\ missing_files = {}
    /\ bank_accounts = <<>>
    /\ ledger = <<>>
    /\ reledger = <<>>
    /\ error = "none"
    /\ argument = statements
    /\ attempts = <<>>
    /\ returned = <<>>

NextLedger == Merge \/ EnrichMerged \/ Consolidate \/ Reconsolidate

SpecLedger == InitLedger /\ [][NextLedger]_vars

----------------------------------------------------------------------------
(* The directory                                                           *)

\* a transaction as a file holds it
RawRow(d, c, w, b) ==
    [date |-> d, description |-> "txn", credit |-> c, debit |-> w, balance |-> b]

April1(y) == [year |-> y, month |-> 4, day |-> 1]
March31(y) == [year |-> y, month |-> 3, day |-> 31]

\* the parsers of the module: the three engines read_as_excel_file tries, the
\* two delimiters read_as_text_file tries, and read_as_html_file
Parsers == {"openpyxl", "pyxlsb", "xlrd", "tsv", "csv", "html"}

\* what a file holds: the parsers that read it, and the table they read.
\* Unreadable is a file no parser reads, Readable a comma-separated export,
\* HtmlExport an HTML export.
Unreadable == [reads |-> {}, table |-> <<>>]
Readable(t) == [reads |-> {"csv"}, table |-> t]
HtmlExport(t) == [reads |-> {"html"}, table |-> t]

\* the contents a single-year file of the directory may have at the start
FileContents(name) == { Unreadable, Readable(<<RawRow(April1(name.year), 1, 0, 1)>>) }

\* the two-year-named files the directory may hold at the start, at most one:
\* a BOM export the HTML reader cannot read, BOM exports over the fiscal years
\* 2022-2023 and over 2022 and 2024, and a two-year file of another bank
MultiFiles ==
    { [name |-> [holder |-> "JM", bank |-> "BOM", start |-> 2022, end |-> 2023, ext |-> "htm"],
       content |-> Unreadable],
      [name |-> [holder |-> "JM", bank |-> "BOM", start |-> 2022, end |-> 2023, ext |-> "htm"],
       content |-> HtmlExport(<<RawRow(April1(2022), 1, 0, 1), RawRow(March31(2023), 0, 1, 0),
                              RawRow(April1(2023), 1, 0, 1)>>)],
      [name |-> [holder |-> "JM", bank |-> "BOM", start |-> 2022, end |-> 2024, ext |-> "htm"],
       content |-> HtmlExport(<<RawRow(April1(2022), 1, 0, 1), RawRow(April1(2024), 1, 0, 2)>>)],
      [name |-> [holder |-> "TS", bank |-> "SBI", start |-> 2022, end |-> 2023, ext |-> "xls"],
       content |-> Unreadable] }

\* position of a name in a directory listing taken in ascending order (the
\* accounts of the model differ in their bank code)
BankRank(b) == CASE b = "BOM" -> 0 [] b = "SBI" -> 1 [] OTHER -> 2
ExtRank(e) == IF e = "csv" THEN 0 ELSE 1
NameRank(n) == (BankRank(n.bank) * 10000 + n.year) * 2 + ExtRank(n.ext)

\* the names of S in ascending order
RECURSIVE Ascending(_)
Ascending(S) ==
    IF S = {} THEN <<>>
    ELSE LET n == CHOOSE x \in S : \A y \in S : NameRank(x) <= NameRank(y)
         IN  <<n>> \o Ascending(S \ {n})

Reverse(s) == [i \in DOMAIN s |-> s[Len(s) + 1 - i]]

\* os.listdir gives the names in an order of its own: ascending or descending
Listings(S) == { Ascending(S), Reverse(Ascending(S)) }

----------------------------------------------------------------------------
(* get_financial_year, segregate_statement, save_segregated_statements     *)

\* character codes of the decimal digits of n, as str(n) and an f-string give them
RECURSIVE IntText(_)
IntText(n) == IF n < 10 THEN <<48 + n>> ELSE Append(IntText(n \div 10), 48 + (n % 10))

\* the number a text of decimal digits denotes
RECURSIVE IntOfText(_)
IntOfText(t) ==
    IF t = <<>> THEN 0 ELSE IntOfText(SubSeq(t, 1, Len(t) - 1)) * 10 + (t[Len(t)] - 48)

\* text.split('-')[0]: the text before the first hyphen
RECURSIVE BeforeHyphen(_)
BeforeHyphen(t) ==
    IF t = <<>> \/ Head(t) = 45 THEN <<>> ELSE <<Head(t)>> \o BeforeHyphen(Tail(t))

\* the label of the calendar year of the date, whatever its month
get_financial_year_calendar(date) ==
    IntText(date.year) \o <<45>> \o IntText(date.year + 1)

\* get_financial_year: the label f"{start_year}-{end_year}"
get_financial_year(date) ==
    LET start_year == IF date.month >= 4 THEN date.year ELSE date.year - 1
        end_year == start_year + 1
    IN  IntText(start_year) \o <<45>> \o IntText(end_year)

\* the rows of table t whose date falls in the fiscal year label, in the order of t
RECURSIVE SelectRows(_, _)
SelectRows(t, label) ==
    IF t = <<>> THEN <<>>
    ELSE IF get_financial_year(Head(t).date) = label
         THEN <<Head(t)>> \o SelectRows(Tail(t), label)
         ELSE SelectRows(Tail(t), label)

\* the groupby without the split: every label is given the whole table
segregate_statement_unsplit(t) ==
    [label \in { get_financial_year(t[i].date) : i \in DOMAIN t } |-> t]

\* segregate_statement: the groupby, as the function label -> group
segregate_statement(t) ==
    [label \in { get_financial_year(t[i].date) : i \in DOMAIN t } |-> SelectRows(t, label)]

\* the file name save_segregated_statements writes the group of a label to
SegregatedName(holder, bank, label) ==
    [holder |-> holder, bank |-> bank, year |-> IntOfText(BeforeHyphen(label)), ext |-> "csv"]

\* save_segregated_statements: the directory after the groups are written
save_segregated_statements(groups, holder, bank, dir) ==
    LET written == { SegregatedName(holder, bank, label) : label \in DOMAIN groups }
        LabelOf(n) == CHOOSE label \in DOMAIN groups : SegregatedName(holder, bank, label) = n
    IN  [n \in DOMAIN dir \cup written |->
            IF n \in written THEN Readable(groups[LabelOf(n)]) ELSE dir[n]]

----------------------------------------------------------------------------
(* are_files_continuous                                                    *)

\* the dict key (bank_name, account_holder)
bank_account(name) == <<name.bank, name.holder>>

\* bank_accounts[bank_account]: the years of the account's names, in list order
RECURSIVE YearsOf(_, _)
YearsOf(names, account) ==
    IF names = <<>> THEN <<>>
    ELSE IF bank_account(Head(names)) = account
         THEN <<Head(names).year>> \o YearsOf(Tail(names), account)
         ELSE YearsOf(Tail(names), account)

MaxOf(S) == CHOOSE x \in S : \A y \in S : y <= x
MinOf(S) == CHOOSE x \in S : \A y \in S : x <= y

\* is_continuous(years), years a non-empty list
is_continuous(years) ==
    Len(years) = MaxOf(Range(years)) - MinOf(Range(years)) + 1

\* all_years - existing_years
missing_years(years) ==
    (MinOf(Range(years)) .. MaxOf(Range(years))) \ Range(years)

AccountsOf(names) == { bank_account(names[i]) : i \in DOMAIN names }

\* whether are_files_continuous returns True; it raises otherwise
are_files_continuous(names) ==
    \A account \in AccountsOf(names) : is_continuous(YearsOf(names, account))

\* the identifiers f"{bank}{year}_{holder}" the raised error lists
missing_files_of(names) ==
    UNION { { <<account[1], year, account[2]>> : year \in missing_years(YearsOf(names, account)) } :
            account \in AccountsOf(names) }

----------------------------------------------------------------------------
(* enrich_statements                                                       *)

\* enrich_statements: the table of one file, adapter applied, bank and
\* account holder columns set (a bank code outside the four sets no bank
\* column: the later reindex fills it with NaN)
EnrichStatement(name, t) ==
    [i \in DOMAIN t |->
        StatementRow(t[i].date, t[i].credit, t[i].debit, t[i].balance, name)]

\* enrich_statements: the dict, updated in place
enrich_statements(stmts) ==
    [i \in DOMAIN stmts |-> [stmts[i] EXCEPT !.table = EnrichStatement(stmts[i].key, @)]]

----------------------------------------------------------------------------
(* load_all_files and get_consolidated_statement                           *)

\* load_all_files, first loop: the two-year-named file at the head of the
\* listing.  A BOM file is read as HTML (a failure propagates to the caller),
\* enriched, segregated and written out as single-year files; any other bank
\* is passed over.  The tables of MultiFiles are the rows enrich_bom_statement
\* keeps.
Segregate ==
    /\ pc = "prepass"
    /\ todo # <<>>
    /\ LET name == Head(todo)
           content == multi[CHOOSE i \in DOMAIN multi : multi[i].name = name].content
       IN  IF name.bank = "BOM"
           THEN IF "html" \in content.reads
                THEN /\ disk' = save_segregated_statements(
                                    segregate_statement(content.table),
                                    name.holder, name.bank, disk)
                     /\ todo' = Tail(todo)
                     /\ UNCHANGED <<pc, error>>
                ELSE /\ error' = "HTMLReadError"
                     /\ pc' = "failed"
                     /\ UNCHANGED <<disk, todo>>
           ELSE /\ todo' = Tail(todo)
                /\ UNCHANGED <<disk, pc, error>>
    /\ UNCHANGED <<multi, file_names, continuity, missing_files, statements,
                   bank_accounts, ledger, reledger>>
    /\ UNCHANGED callVars

\* the second listing taken while two-year-named files are still to be segregated
RescanEarly ==
    /\ pc = "prepass"
    /\ \E listing \in Listings(DOMAIN disk) : file_names' = listing
    /\ pc' = "validate"
    /\ UNCHANGED <<multi, disk, todo, continuity, missing_files, statements,
                   bank_accounts, ledger, reledger, error>>
    /\ UNCHANGED callVars

\* load_all_files, second listing: the single-year-named files
Rescan ==
    /\ pc = "prepass"
    /\ todo = <<>>
    /\ \E listing \in Listings(DOMAIN disk) : file_names' = listing
    /\ pc' = "validate"
    /\ UNCHANGED <<multi, disk, todo, continuity, missing_files, statements,
                   bank_accounts, ledger, reledger, error>>
    /\ UNCHANGED callVars

\* load_all_files: if are_files_continuous(file_names=file_names)
Validate ==
    /\ pc = "validate"
    /\ IF are_files_continuous(file_names)
       THEN /\ continuity' = "true"
            /\ todo' = file_names
            /\ pc' = "load"
            /\ UNCHANGED <<missing_files, error>>
       ELSE /\ continuity' = "raised"
            /\ missing_files' = missing_files_of(file_names)
            /\ error' = "ValueError"
            /\ pc' = "failed"
            /\ UNCHANGED todo
    /\ UNCHANGED <<multi, disk, file_names, statements, bank_accounts, ledger, reledger>>
    /\ UNCHANGED callVars

\* read_as_excel_file: the engines in the order they are tried
engines == <<"openpyxl", "pyxlsb", "xlrd">>

\* comma-separated tried before tab-separated
delimiters_comma_first == <<"csv", "tsv">>

\* read_as_text_file: tab-separated is tried first, then comma-separated
delimiters == <<"tsv", "csv">>

\* read_as_excel_file: the table of the first engine that reads the file;
\* <<>> stands for the ValueError raised when no engine does
read_as_excel_file(content) ==
    IF \E i \in DOMAIN engines : engines[i] \in content.reads
    THEN <<content.table>> ELSE <<>>

\* the tab-separated read alone
read_as_text_file_tab_only(content) ==
    IF "tsv" \in content.reads THEN <<content.table>> ELSE <<>>

\* read_as_text_file: the table of the first delimiter that reads the file;
\* <<>> stands for the None the function falls through to
read_as_text_file(content) ==
    IF \E i \in DOMAIN delimiters : delimiters[i] \in content.reads
    THEN <<content.table>> ELSE <<>>

\* load_file_to_dataframe: the spreadsheet read, on its error the text read;
\* <<table>>, or <<>> for None
load_file_to_dataframe(content) ==
    IF read_as_excel_file(content) # <<>>
    THEN read_as_excel_file(content)
    ELSE read_as_text_file(content)

\* load_all_files, second loop: the file at the head of the listing is loaded
\* and kept unless the loader gave None
LoadFile ==
    /\ pc = "load"
    /\ todo # <<>>
    /\ LET file_name == Head(todo)
           data_frame == load_file_to_dataframe(disk[file_name])
       IN  statements' = IF data_frame # <<>>
                         THEN Append(statements, [key |-> file_name, table |-> data_frame[1]])
                         ELSE statements
    /\ todo' = Tail(todo)
    /\ UNCHANGED <<pc, multi, disk, file_names, continuity, missing_files,
                   bank_accounts, ledger, reledger, error>>
    /\ UNCHANGED callVars

\* load_all_files returns statements
ReturnStatements ==
    /\ pc = "load"
    /\ todo = <<>>
    /\ pc' = "loaded"
    /\ UNCHANGED <<multi, disk, todo, file_names, continuity, missing_files,
                   statements, bank_accounts, ledger, reledger, error>>
    /\ UNCHANGED callVars

\* enrich_statements(statements, account_holders)
EnrichStatements ==
    /\ pc = "loaded"
    /\ statements' = enrich_statements(statements)
    /\ pc' = "enriched"
    /\ UNCHANGED <<multi, disk, todo, file_names, continuity, missing_files,
                   bank_accounts, ledger, reledger, error>>
    /\ UNCHANGED callVars

\* the directory get_consolidated_statement is called on
Init ==
    /\ pc = "prepass"
    /\ multi \in {<<>>} \cup { <<m>> : m \in MultiFiles }
    /\ \E S \in SUBSET FileNames :
          /\ Cardinality(S) <= MaxFiles
          /\ disk \in [S -> UNION { FileContents(n) : n \in S }]
          /\ \A n \in S : disk[n] \in FileContents(n)
    /\ todo = [i \in DOMAIN multi |-> multi[i].name]
    /\ file_names = <<>>
    /\ continuity = "none"
    /\ missing_files = {}
    /\ statements = <<>>
    /\ bank_accounts = <<>>
    /\ ledger = <<>>
    /\ reledger = <<>>
    /\ error = "none"
    /\ argument = <<>>
    /\ attempts = <<>>
    /\ returned = <<>>

Next ==
    \/ Segregate
    \/ Rescan
    \/ Validate
    \/ LoadFile
    \/ ReturnStatements
    \/ EnrichStatements
    \/ Merge
    \/ EnrichMerged
    \/ Consolidate

Spec == Init /\ [][Next]_vars

----------------------------------------------------------------------------
(* load_file_to_dataframe on a file, one parse attempt at a time           *)

\* read_as_excel_file, one turn of its loop: the next engine is tried; its
\* table is returned, or the loop goes on, or after the last engine the
\* ValueError is raised, which load_file_to_dataframe catches to go on with
\* read_as_text_file
ReadAsExcel ==
    /\ pc = "read_as_excel_file"
    /\ LET engine == engines[Len(attempts) + 1]
       IN  /\ attempts' = Append(attempts, engine)
           /\ IF engine \in argument.reads
              THEN returned' = <<argument.table>> /\ pc' = "returned"
              ELSE /\ UNCHANGED returned
                   /\ pc' = IF Len(attempts) + 1 = Len(engines)
                            THEN "read_as_text_file" ELSE pc
    /\ UNCHANGED <<multi, disk, todo, file_names, continuity, missing_files,
                   statements, bank_accounts, ledger, reledger, error, argument>>

\* read_as_text_file, one of its two try blocks: the next delimiter is tried;
\* its table is returned, or the next block follows, or after the last one
\* the function ends and None is returned
ReadAsText ==
    /\ pc = "read_as_text_file"
    /\ LET tried == Len(attempts) - Len(engines)
           delimiter == delimiters[tried + 1]
       IN  /\ attempts' = Append(attempts, delimiter)
           /\ IF delimiter \in argument.reads
              THEN returned' = <<argument.table>> /\ pc' = "returned"
              ELSE /\ UNCHANGED returned
                   /\ pc' = IF tried + 1 = Len(delimiters) THEN "returned" ELSE pc
    /\ UNCHANGED <<multi, disk, todo, file_names, continuity, missing_files,
                   statements, bank_accounts, ledger, reledger, error, argument>>

\* load_file_to_dataframe is called on a file any set of the parsers reads
InitLoad ==
    /\ pc = "read_as_excel_file"
    /\ argument \in [reads : SUBSET Parsers, table : {<<RawRow(April1(2022), 1, 0, 1)>>}]
    /\ attempts = <<>>
    /\ returned = <<>>
    /\ multi = <<>>
    /\ disk = <<>>
    /\ todo = <<>>
    /\ file_names = <<>>
    /\ continuity = "none"
    /\ missing_files = {}
    /\ statements = <<>>
    /\ bank_accounts = <<>>
    /\ ledger = <<>>
    /\ reledger = <<>>
    /\ error = "none"

NextLoad == ReadAsExcel \/ ReadAsText

SpecLoad == InitLoad /\ [][NextLoad]_vars

----------------------------------------------------------------------------
(* get_financial_year on a date                                            *)

\* the dates get_financial_year is called on: every month of the model's
\* years, early and late in the month
FiscalDates == [year : Years, month : 1 .. 12, day : {1, 28}]

GetFinancialYear ==
    /\ pc = "call"
    /\ returned' = get_financial_year(argument)
    /\ pc' = "returned"
    /\ UNCHANGED <<multi, disk, todo, file_names, continuity, missing_files,
                   statements, bank_accounts, ledger, reledger, error,
                   argument, attempts>>

InitFiscal ==
    /\ pc = "call"
    /\ argument \in FiscalDates
    /\ attempts = <<>>
    /\ returned = <<>>
    /\ multi = <<>>
    /\ disk = <<>>
    /\ todo = <<>>
    /\ file_names = <<>>
    /\ continuity = "none"
    /\ missing_files = {}
    /\ statements = <<>>
    /\ bank_accounts = <<>>
    /\ ledger = <<>>
    /\ reledger = <<>>
    /\ error = "none"

NextFiscal == GetFinancialYear

SpecFiscal == InitFiscal /\ [][NextFiscal]_vars

----------------------------------------------------------------------------
(* get_file_info on the text of a file name                                *)

\* the characters of a file name, one of each class the two patterns tell
\* apart: a letter or digit, the underscore, the dot, any other character
Chars == {"a", "_", ".", "~"}

\* characters in the file name get_file_info is called on
MaxNameLen == 9

\* \w
IsWord(c) == c \in {"a", "_"}

\* the first underscore of s at or after position i, 0 when there is none
FirstUnderscore(s, i) ==
    IF \E j \in i .. Len(s) : s[j] = "_"
    THEN CHOOSE j \in i .. Len(s) : s[j] = "_" /\ \A k \in i .. j - 1 : s[k] # "_"
    ELSE 0

\* the last position of the run of word characters that starts at i
RECURSIVE WordEnd(_, _)
WordEnd(s, i) == IF i < Len(s) /\ IsWord(s[i + 1]) THEN WordEnd(s, i + 1) ELSE i

\* ([^_]+)\.(\w+) matched from position i: the greedy first group backs off to
\* the last dot of the underscore-free run that a word character follows, and
\* the second group takes the word characters from there; <<>> for no match
LastGroups(s, i) ==
    LET u == FirstUnderscore(s, i)
        e == IF u = 0 THEN Len(s) ELSE u - 1
        dots == { k \in i + 1 .. e : s[k] = "." /\ k < Len(s) /\ IsWord(s[k + 1]) }
    IN  IF dots = {} THEN <<>>
        ELSE LET k == CHOOSE x \in dots : \A y \in dots : y <= x
             IN  <<SubSeq(s, i, k - 1), SubSeq(s, k + 1, WordEnd(s, k + 1))>>

\* re.match(pattern, file_name) for the pattern of `fields` underscore-joined
\* [^_]+ groups followed by \.(\w+): the groups, <<>> for None.  The match
\* is anchored at the start of the name only.
RECURSIVE Match(_, _, _)
Match(s, i, fields) ==
    IF fields = 1 THEN LastGroups(s, i)
    ELSE LET u == FirstUnderscore(s, i)
         IN  IF u <= i THEN <<>>
             ELSE LET rest == Match(s, u + 1, fields - 1)
                  IN  IF rest = <<>> THEN <<>> ELSE <<SubSeq(s, i, u - 1)>> \o rest

\* get_file_info: the groups of the first pattern that matches, the
\* single-year pattern first; AttributeError when neither does
get_file_info(file_name) ==
    IF Match(file_name, 1, 3) # <<>>
    THEN [raised |-> "none", groups |-> Match(file_name, 1, 3)]
    ELSE IF Match(file_name, 1, 4) # <<>>
         THEN [raised |-> "none", groups |-> Match(file_name, 1, 4)]
         ELSE [raised |-> "AttributeError", groups |-> <<>>]

GetFileInfo ==
    /\ pc = "call"
    /\ returned' = get_file_info(argument)
    /\ pc' = "returned"
    /\ UNCHANGED <<multi, disk, todo, file_names, continuity, missing_files,
                   statements, bank_accounts, ledger, reledger, error,
                   argument, attempts>>

\* get_file_info is called on any text
InitParse ==
    /\ pc = "call"
    /\ \E n \in 0 .. MaxNameLen : argument \in [1 .. n -> Chars]
    /\ attempts = <<>>
    /\ returned = <<>>
    /\ multi = <<>>
    /\ disk = <<>>
    /\ todo = <<>>
    /\ file_names = <<>>
    /\ continuity = "none"
    /\ missing_files = {}
    /\ statements = <<>>
    /\ bank_accounts = <<>>
    /\ ledger = <<>>
    /\ reledger = <<>>
    /\ error = "none"

NextParse == GetFileInfo

SpecParse == InitParse /\ [][NextParse]_vars

----------------------------------------------------------------------------
(* securities.py: get_historical_data                                      *)

\* no statement pipeline is running
NoPipeline ==
    /\ multi = <<>>
    /\ disk = <<>>
    /\ todo = <<>>
    /\ file_names = <<>>
    /\ continuity = "none"
    /\ missing_files = {}
    /\ statements = <<>>
    /\ bank_accounts = <<>>
    /\ ledger = <<>>
    /\ reledger = <<>>
    /\ error = "none"

\* timestamps in a chart response
MaxQuotes == 2

\* the quote values of a response
Prices == {1, 2}

\* the Unix timestamps of a response: midnight and the end of 1970-01-02
Timestamps == {86400, 172799}

\* the quote_type a caller passes: the five documented ones and another
QuoteTypes == {"open", "close", "high", "low", "adjclose", "volume"}

\* datetime.fromtimestamp(t, timezone.utc).strftime('%Y-%m-%d %H:%M:%S'), for
\* a timestamp in January 1970
utc_strftime(t) ==
    LET day == 1 + t \div 86400
        second == t % 86400
    IN  Digits(1970, 4) \o <<45>> \o Digits(1, 2) \o <<45>> \o Digits(day, 2) \o <<32>>
        \o Digits(second \div 3600, 2) \o <<58>> \o Digits((second % 3600) \div 60, 2)
        \o <<58>> \o Digits(second % 60, 2)

\* what the request gives: the exception that ends the call with [] (a date
\* strptime rejects, a failed request, a body that is not JSON, a body that
\* lacks the chart keys), or the chart with its timestamps, the series of
\* indicators.quote[0] and the series of indicators.adjclose[0]
Charts ==
    [status : {"ValueError", "RequestException", "JSONDecodeError", "KeyError"},
     timestamp : {<<>>}, quote : {<<>>}, adjclose : {<<>>}]
    \cup
    UNION { [status : {"ok"},
             timestamp : [1 .. n -> Timestamps],
             quote : [open : [1 .. n -> Prices], close : [1 .. n -> Prices],
                      high : [1 .. n -> Prices], low : [1 .. n -> Prices]],
             adjclose : [1 .. n -> Prices]] : n \in 1 .. MaxQuotes }

\* {'open': 'open', 'close': 'close', 'high': 'high', 'low': 'low'}.get(quote_type, 'close')
quote_key(quote_type) ==
    IF quote_type \in {"open", "close", "high", "low"} THEN quote_type ELSE "close"

Min(a, b) == IF a <= b THEN a ELSE b

\* get_historical_data: [] on any of the handled errors, else the zip of the
\* timestamps with quotes[quote_key]
get_historical_data(quote_type, chart) ==
    IF chart.status # "ok" THEN <<>>
    ELSE LET quotes == chart.quote
             series == quotes[quote_key(quote_type)]
         IN  [i \in 1 .. Min(Len(chart.timestamp), Len(series)) |->
                [timestamp |-> utc_strftime(chart.timestamp[i]), quote |-> series[i]]]

GetHistoricalData ==
    /\ pc = "call"
    /\ returned' = get_historical_data(argument.quote_type, argument.chart)
    /\ pc' = "returned"
    /\ UNCHANGED <<multi, disk, todo, file_names, continuity, missing_files,
                   statements, bank_accounts, ledger, reledger, error,
                   argument, attempts>>

InitQuotes ==
    /\ pc = "call"
    /\ argument \in [quote_type : QuoteTypes, chart : Charts]
    /\ attempts = <<>>
    /\ returned = <<>>
    /\ NoPipeline

NextQuotes == GetHistoricalData

SpecQuotes == InitQuotes /\ [][NextQuotes]_vars

----------------------------------------------------------------------------
(* securities.py: get_script_codes                                         *)

\* tickers in a request
MaxTickers == 2

\* securities in a response
MaxSecurities == 2

\* a ticker or scrip_id is a text of letters; the letters of the tickers
Letters == {"a", "A", "b"}

\* the tickers a caller asks for
Tickers == { <<c>> : c \in Letters }

\* the scrip_id of a fetched security; "" when the key is absent
ScripIds == { <<c>> : c \in {"a", "A", "B"} } \cup {<<>>}

\* the SCRIP_CD of a fetched security; "None" when the key is absent
ScriptCodes == {"500001", "500002", "None"}

\* str.upper on one character
UpperChar(c) == CASE c = "a" -> "A" [] c = "b" -> "B" [] OTHER -> c

\* the text as written, its case kept
AsWritten(text) == text

\* str.upper
Upper(text) == [i \in DOMAIN text |-> UpperChar(text[i])]

\* what the request gives: the exception that ends the call, or the list of
\* securities the body parses to
ScripResponses ==
    [status : {"RequestException", "ValueError"}, securities : {<<>>}]
    \cup
    UNION { [status : {"ok"},
             securities : [1 .. n -> [scrip_id : ScripIds, SCRIP_CD : ScriptCodes]]] :
            n \in 0 .. MaxSecurities }

\* the inner loop: the SCRIP_CD of the first security whose scrip_id is the
\* ticker when both are upper-cased, None when the loop ends without one
RECURSIVE ScriptCodeOf(_, _)
ScriptCodeOf(ticker, securities) ==
    IF securities = <<>> THEN "None"
    ELSE IF Upper(Head(securities).scrip_id) = Upper(ticker)
         THEN Head(securities).SCRIP_CD
         ELSE ScriptCodeOf(ticker, Tail(securities))

\* get_script_codes: the dict ticker -> script code, as a function
get_script_codes(tickers, response) ==
    IF response.status # "ok"
    THEN [ticker \in Range(tickers) |-> "None"]
    ELSE [ticker \in Range(tickers) |-> ScriptCodeOf(ticker, response.securities)]

GetScriptCodes ==
    /\ pc = "call"
    /\ returned' = get_script_codes(argument.tickers, argument.response)
    /\ pc' = "returned"
    /\ UNCHANGED <<multi, disk, todo, file_names, continuity, missing_files,
                   statements, bank_accounts, ledger, reledger, error,
                   argument, attempts>>

InitCodes ==
    /\ pc = "call"
    /\ \E n \in 0 .. MaxTickers :
          argument \in [tickers : [1 .. n -> Tickers], response : ScripResponses]
    /\ attempts = <<>>
    /\ returned = <<>>
    /\ NoPipeline

NextCodes == GetScriptCodes

SpecCodes == InitCodes /\ [][NextCodes]_vars

----------------------------------------------------------------------------
(* segregate_statement on a table                                          *)

\* rows in the table segregate_statement is called on
MaxStatementRows == 3

\* the dates of its rows: the two sides of two fiscal-year boundaries
SegregateDates == { April1(2022), March31(2023), April1(2023), March31(2024) }

\* its rows: a credit of 1 or a debit of 1 on one of the dates
SegregateRows ==
    { RawRow(d, c, 1 - c, 1) : d \in SegregateDates, c \in {0, 1} }

SegregateStatement ==
    /\ pc = "call"
    /\ returned' = segregate_statement(argument)
    /\ pc' = "returned"
    /\ UNCHANGED <<multi, disk, todo, file_names, continuity, missing_files,
                   statements, bank_accounts, ledger, reledger, error,
                   argument, attempts>>

\* segregate_statement is called on any table, in any row order
InitSegregate ==
    /\ pc = "call"
    /\ \E n \in 0 .. MaxStatementRows : argument \in [1 .. n -> SegregateRows]
    /\ attempts = <<>>
    /\ returned = <<>>
    /\ NoPipeline

NextSegregate == SegregateStatement

SpecSegregate == InitSegregate /\ [][NextSegregate]_vars

----------------------------------------------------------------------------
(* Continuity validation and the directory pipeline                        *)

\* the years named by the files of an account in a list of names
NamedYears(names, bank, holder) ==
    { names[i].year : i \in { k \in DOMAIN names :
                                names[k].bank = bank /\ names[k].holder = holder } }

\* the (bank, year, holder) an account lacks between its first and last year
AbsentFiles(names) ==
    { id \in { names[i].bank : i \in DOMAIN names } \X Years
               \X { names[i].holder : i \in DOMAIN names } :
        /\ id[2] \notin NamedYears(names, id[1], id[3])
        /\ \E y \in NamedYears(names, id[1], id[3]) : y < id[2]
        /\ \E y \in NamedYears(names, id[1], id[3]) : y > id[2] }

\* C1: once are_files_continuous has run on a list of single-year names, it
\* has returned True if no account lacks a year between its first and last
\* year, and has otherwise raised the error listing exactly the lacking
\* (bank, year, holder) of all accounts.
C1_ContinuityVerdict ==
    continuity # "none" =>
        IF AbsentFiles(file_names) = {}
        THEN continuity = "true"
        ELSE continuity = "raised" /\ missing_files = AbsentFiles(file_names)

\* the fiscal years of the files of an account that were loaded and merged
LoadedYears(bank, holder) ==
    { statements[i].key.year : i \in { k \in DOMAIN statements :
                                         /\ statements[k].key.bank = bank
                                         /\ statements[k].key.holder = holder } }

Contiguous(S) == \A x \in S, z \in S : \A y \in x .. z : y \in S

\* C2: when the pipeline has returned a ledger, the fiscal years of the files
\* loaded for each account form a contiguous range.
C2_LoadedYearsContiguous ==
    pc = "done" =>
        \A i \in DOMAIN statements :
            Contiguous(LoadedYears(statements[i].key.bank, statements[i].key.holder))

\* C9: once validation has run on a listing in which some account lacks a
\* year, the run has failed with the missing-files error, no file has been
\* loaded and no ledger exists.
C9_GapAbortsBatch ==
    (continuity # "none" /\ AbsentFiles(file_names) # {}) =>
        /\ pc = "failed"
        /\ error = "ValueError"
        /\ continuity = "raised"
        /\ statements = <<>>
        /\ ledger = <<>>

----------------------------------------------------------------------------
(* Merging, opening balance and consolidation                              *)

\* the running-balance recurrence on a table
RunningBalance(t) ==
    \A i \in DOMAIN t :
        t[i].balance = (IF i = 1 THEN 0 ELSE t[i - 1].balance) + t[i].credit + t[i].debit

\* C3: the balance column consolidate_statements returns is the running sum
\* of credit + debit in the row order of the returned table: the first balance
\* is credit + debit of the first row, every later one the previous balance
\* plus credit + debit of its row.
C3_BalanceIsRunningSum ==
    /\ pc \in {"done", "reconsolidated"} => RunningBalance(ledger)
    /\ pc = "reconsolidated" => RunningBalance(reledger)

\* C3 witness: a ledger in which a row with a credit is followed, on the same
\* date, by a row with a debit that lowers the balance.
C3_Witness ==
    /\ pc = "done"
    /\ \E i \in DOMAIN ledger :
          /\ i + 1 \in DOMAIN ledger
          /\ ledger[i].date = ledger[i + 1].date
          /\ ledger[i].credit > 0
          /\ ledger[i + 1].credit = 0
          /\ ledger[i + 1].debit < 0
          /\ ledger[i + 1].balance < ledger[i].balance

\* C4: after enrich_merged_statement every row of every account's table,
\* the 'Balance brought forward' row included, has debit <= 0.
C4_DebitNonPositive ==
    pc = "synthesized" =>
        \A i \in DOMAIN bank_accounts :
            \A j \in DOMAIN bank_accounts[i].table : bank_accounts[i].table[j].debit <= 0

\* the first transaction of the only account's merged table
FirstMerged == merge_statements(statements)[1].table[1]

\* C5: for a batch of a single account the first row of the consolidated
\* ledger carries the opening balance balance0 + debit0 - credit0 of the
\* account's first merged transaction.
C5_FirstBalanceIsOpening ==
    (pc = "done" /\ Len(bank_accounts) = 1) =>
        ledger[1].balance = FirstMerged.balance + FirstMerged.debit - FirstMerged.credit

\* what enrich_merged_statement makes of table t when the opening balance of
\* its first row is not negative, u being the table it produced
OpeningPrepended(t, u) ==
    LET opening == t[1].balance + t[1].debit - t[1].credit
    IN  opening >= 0 =>
            /\ Len(u) = Len(t) + 1
            /\ u[1].description = "Balance brought forward"
            /\ u[1].credit = opening
            /\ u[1].debit = 0
            /\ \A j \in DOMAIN t :
                  /\ u[j + 1].description = t[j].description
                  /\ u[j + 1].description # "Balance brought forward"
                  /\ u[j + 1].credit = t[j].credit
                  /\ u[j + 1].debit = 0 - t[j].debit

\* C6: enrich_merged_statement turns every merged table whose opening balance
\* balance0 + debit0 - credit0 is not negative into the table that starts with
\* one 'Balance brought forward' row of credit = opening and debit = 0,
\* followed by the rows of the merged table with credit unchanged and debit
\* negated.
C6_OpeningRowPrepended ==
    [][ (pc = "merged" /\ pc' = "synthesized") =>
            /\ Len(bank_accounts') = Len(bank_accounts)
            /\ \A i \in DOMAIN bank_accounts :
                  OpeningPrepended(bank_accounts[i].table, bank_accounts'[i].table) ]_vars

\* C6 witness: a synthesized table that opens with a positive balance brought
\* forward as credit and holds a real row with a credit and one with a debit.
C6_Witness ==
    /\ pc = "synthesized"
    /\ \E i \in DOMAIN bank_accounts :
          LET u == bank_accounts[i].table
          IN  /\ u[1].description = "Balance brought forward"
              /\ u[1].credit > 0
              /\ u[1].debit = 0
              /\ \E j \in DOMAIN u : j > 1 /\ u[j].credit > 0
              /\ \E j \in DOMAIN u : j > 1 /\ u[j].debit < 0

\* the calendar date a '%Y-%m-%d' string names
DateOfString(str) ==
    [year  |-> (str[1] - 48) * 1000 + (str[2] - 48) * 100 + (str[3] - 48) * 10 + (str[4] - 48),
     month |-> (str[6] - 48) * 10 + (str[7] - 48),
     day   |-> (str[9] - 48) * 10 + (str[10] - 48)]

\* rows in ascending date order, the larger credit first among equal dates;
\* date(r) is the calendar date of row r
Ordered(t, date(_)) ==
    \A i, j \in DOMAIN t :
        i < j => /\ ~TsLess(date(t[j]), date(t[i]))
                 /\ date(t[i]) = date(t[j]) => t[i].credit >= t[j].credit

\* C7: every table merge_statements returns, and the table
\* consolidate_statements returns, is in ascending date order, and of two
\* rows with equal dates the one with the larger credit comes first.
C7_SortedByDateThenCredit ==
    LET timestamp(r) == r.date
        parsed(r) == DateOfString(r.date)
    IN  /\ pc = "merged" =>
              \A i \in DOMAIN bank_accounts : Ordered(bank_accounts[i].table, timestamp)
        /\ pc \in {"done", "reconsolidated"} => Ordered(ledger, parsed)

\* C7 witness: a ledger with two rows of one date, the one with the larger
\* credit first, and a row of another date.
C7_Witness ==
    /\ pc = "done"
    /\ \E i, j \in DOMAIN ledger :
          /\ i < j
          /\ ledger[i].date = ledger[j].date
          /\ ledger[i].credit > ledger[j].credit
    /\ \E i, j \in DOMAIN ledger : ledger[i].date # ledger[j].date

\* C8: consolidating a consolidated ledger again, alone, returns the same
\* rows in the same order with the same balance on every row.
C8_ReconsolidationIdempotent ==
    pc = "reconsolidated" =>
        /\ Len(reledger) = Len(ledger)
        /\ \A i \in DOMAIN ledger :
              /\ reledger[i] = ledger[i]
              /\ reledger[i].balance = ledger[i].balance

\* C8 witness: a reconsolidated ledger with two rows of the same date and
\* credit and different debit.
C8_Witness ==
    /\ pc = "reconsolidated"
    /\ \E i, j \in DOMAIN ledger :
          /\ i # j
          /\ ledger[i].date = ledger[j].date
          /\ ledger[i].credit = ledger[j].credit
          /\ ledger[i].debit # ledger[j].debit

\* how often row r occurs in table t
Occurrences(r, t) == Cardinality({ i \in DOMAIN t : t[i] = r })

\* how often row r occurs in the input tables of the files of an account
OccurrencesIn(r, stmts, key) ==
    SumSeq([i \in DOMAIN stmts |->
              IF <<stmts[i].key.bank, stmts[i].key.holder>> = key
              THEN Occurrences(r, stmts[i].table) ELSE 0])

\* C10: merge_statements returns one table for each distinct (bank, holder)
\* of the input file names, and each table holds every row of the input
\* tables of its pair as often as they hold it together, and no other row.
\* (The input tables are read after the call: the call reorders at most.)
C10_MergeKeepsAllRows ==
    pc = "merged" =>
        /\ { bank_accounts[i].key : i \in DOMAIN bank_accounts }
              = { <<statements[i].key.bank, statements[i].key.holder>> : i \in DOMAIN statements }
        /\ \A i, j \in DOMAIN bank_accounts :
              bank_accounts[i].key = bank_accounts[j].key => i = j
        /\ \A i \in DOMAIN bank_accounts :
              /\ \A r \in Range(bank_accounts[i].table) :
                    Occurrences(r, bank_accounts[i].table)
                        = OccurrencesIn(r, statements, bank_accounts[i].key)
              /\ \A k \in DOMAIN statements :
                    <<statements[k].key.bank, statements[k].key.holder>> = bank_accounts[i].key
                        => Range(statements[k].table) \subseteq Range(bank_accounts[i].table)

\* C10 witness: two files of one account, holding the same row, merged into
\* one table that holds the row twice.
C10_Witness ==
    /\ pc = "merged"
    /\ Len(statements) = 2
    /\ Len(bank_accounts) = 1
    /\ statements[1].table = statements[2].table
    /\ Len(bank_accounts[1].table) = 2

----------------------------------------------------------------------------
(* get_file_info                                                           *)

\* the positions of the underscores of s
Underscores(s) == { i \in DOMAIN s : s[i] = "_" }

\* s is exactly `fields` non-empty underscore-free fields joined by
\* underscores, a dot, and a non-empty extension of word characters; the
\* dot that ends the last field is at position k
SplitsAt(s, k, fields) ==
    /\ s[k] = "."
    /\ k < Len(s)
    /\ \A i \in k + 1 .. Len(s) : IsWord(s[i])
    /\ Cardinality({ u \in Underscores(s) : u < k }) = fields - 1
    /\ \A i \in 1 .. k - 1 : s[i] = "_" => i > 1 /\ s[i - 1] # "_" /\ s[i + 1] # "_"
    /\ k > 1 /\ s[k - 1] # "_"

HasForm(s, fields) == \E k \in DOMAIN s : SplitsAt(s, k, fields)

\* C11: get_file_info returns the captured fields exactly for the names that
\* as a whole are holder_bank_year.ext or holder_bank_yearStart_yearEnd.ext,
\* and raises the format error for every other name.
C11_WholeNameOrError ==
    pc = "returned" =>
        (returned.raised = "none" <=> (HasForm(argument, 3) \/ HasForm(argument, 4)))

\* parts joined by the separators seps[1], seps[2], ...
RECURSIVE Join(_, _)
Join(parts, seps) ==
    IF Len(parts) = 1 THEN parts[1]
    ELSE parts[1] \o <<seps[1]>> \o Join(Tail(parts), Tail(seps))

\* C12: for a name accepted under the single-year pattern, holder + "_" +
\* bank + "_" + year + "." + extension is the name get_file_info was given.
C12_SingleYearRoundTrip ==
    (pc = "returned" /\ Len(returned.groups) = 4) =>
        Join(returned.groups, <<"_", "_", ".">>) = argument

----------------------------------------------------------------------------
(* get_financial_year                                                      *)

\* C13: get_financial_year returns the label '{s}-{s+1}', where s is the
\* calendar year of the date for April to December and the year before it
\* for January to March.
C13_FinancialYearLabel ==
    pc = "returned" =>
        LET s == IF argument.month \in 4 .. 12 THEN argument.year ELSE argument.year - 1
        IN  /\ BeforeHyphen(returned) = IntText(s)
            /\ returned = IntText(s) \o <<45>> \o IntText(s + 1)

\* 2023-03-28 is labelled 2022-2023
C13_Witness ==
    /\ pc = "returned"
    /\ argument = [year |-> 2023, month |-> 3, day |-> 28]
    /\ returned = <<50, 48, 50, 50, 45, 50, 48, 50, 51>>

----------------------------------------------------------------------------
(* load_file_to_dataframe                                                  *)

\* the parsers of order up to and including the first that reads the file,
\* all of them when none does
RECURSIVE UpToFirstSuccess(_, _)
UpToFirstSuccess(order, reads) ==
    IF order = <<>> THEN <<>>
    ELSE IF Head(order) \in reads THEN <<Head(order)>>
         ELSE <<Head(order)>> \o UpToFirstSuccess(Tail(order), reads)

IsPrefix(a, b) == Len(a) <= Len(b) /\ a = SubSeq(b, 1, Len(a))

\* C14 as stated: the loader tries the spreadsheet engines, then the HTML
\* table, then tab- and comma-separated text, and stops at the first parser
\* that reads the file; the HTML parse is tried whenever no engine read it.
C14_SpreadsheetHtmlText ==
    LET order == UpToFirstSuccess(<<"openpyxl", "pyxlsb", "xlrd", "html", "tsv", "csv">>,
                                  argument.reads)
    IN  /\ IsPrefix(attempts, order)
        /\ pc = "returned" => attempts = order

\* C14 amended: the loader tries the spreadsheet engines openpyxl, pyxlsb and
\* xlrd, then tab-separated and then comma-separated text, stops at the
\* first parser that reads the file and returns its table, returns None when
\* none of the five reads it, and never tries the HTML-table parse.
C14_SpreadsheetThenText ==
    LET order == UpToFirstSuccess(<<"openpyxl", "pyxlsb", "xlrd", "tsv", "csv">>,
                                  argument.reads)
    IN  /\ IsPrefix(attempts, order)
        /\ pc = "returned" =>
              /\ attempts = order
              /\ returned = IF order[Len(order)] \in argument.reads
                            THEN <<argument.table>> ELSE <<>>

\* a file the HTML parser and the comma-separated parser read, and no engine
\* and not the tab-separated parser: all five were tried, in order
C14_Witness ==
    /\ pc = "returned"
    /\ argument.reads = {"html", "csv"}
    /\ attempts = <<"openpyxl", "pyxlsb", "xlrd", "tsv", "csv">>
    /\ returned = <<argument.table>>

\* the names of a listing that satisfy Keep, in the order of the listing
RECURSIVE Kept(_, _)
Kept(listing, keep) ==
    IF listing = <<>> THEN <<>>
    ELSE IF Head(listing) \in keep THEN <<Head(listing)>> \o Kept(Tail(listing), keep)
         ELSE Kept(Tail(listing), keep)

\* the files of the directory that one of the loader's five parsers reads
LoadableFiles ==
    { n \in DOMAIN disk :
        disk[n].reads \cap {"openpyxl", "pyxlsb", "xlrd", "tsv", "csv"} # {} }

\* C15: when load_all_files has returned, no error was raised, the mapping
\* lacks every file that no load strategy reads, and it holds every other
\* file of the listing, in listing order, with the table of the file.
C15_UnreadableSkipped ==
    pc = "loaded" =>
        /\ error = "none"
        /\ [i \in DOMAIN statements |-> statements[i].key] = Kept(file_names, LoadableFiles)
        /\ \A i \in DOMAIN statements : statements[i].table = disk[statements[i].key].table

\* a file no strategy reads is listed before a file that was loaded
C15_Witness ==
    /\ pc = "loaded"
    /\ statements # <<>>
    /\ \E i \in DOMAIN file_names :
          /\ file_names[i] \notin LoadableFiles
          /\ \E j \in DOMAIN file_names : i < j /\ file_names[j] = statements[Len(statements)].key

----------------------------------------------------------------------------
(* enrich_statements: the bank and account_holder columns                  *)

\* the rows handed to consolidate_statements, each with the key of its account
RowsToConsolidate ==
    UNION { { <<bank_accounts[i].key, bank_accounts[i].table[j]>> :
                j \in DOMAIN bank_accounts[i].table } : i \in DOMAIN bank_accounts }

\* C16 as stated: every row handed to consolidate_statements has a bank and
\* an account holder that are not null, whatever the bank code and the
\* holder code of its file.
C16_BankAndHolderPopulated ==
    pc = "synthesized" =>
        \A kr \in RowsToConsolidate : kr[2].bank # "NaN" /\ kr[2].account_holder # "None"

\* C16 amended: a row handed to consolidate_statements has its bank populated
\* exactly when the bank code of its file is BOM, CB, ICICI or SBI, and its
\* account holder is the name the mapping gives the holder code; the bank is
\* NaN for any other bank code and the holder None for a code the mapping
\* lacks.
C16_PopulatedWhenResolved ==
    pc = "synthesized" =>
        \A kr \in RowsToConsolidate :
            /\ kr[1][1] \in {"BOM", "CB", "ICICI", "SBI"} <=> kr[2].bank # "NaN"
            /\ IF kr[1][2] \in DOMAIN account_holders
               THEN kr[2].account_holder = account_holders[kr[1][2]]
               ELSE kr[2].account_holder = "None"

\* a ledger input with a fully populated row and a row with neither field
C16_Witness ==
    /\ pc = "synthesized"
    /\ \E kr \in RowsToConsolidate :
          kr[2].bank = "State Bank of India" /\ kr[2].account_holder = "Tony Stark"
    /\ \E kr \in RowsToConsolidate : kr[2].bank = "NaN" /\ kr[2].account_holder = "None"

----------------------------------------------------------------------------
(* consolidate_statements on what the loader left                          *)

\* C17: a run whose listing passed continuity validation raises no error:
\* consolidate_statements completes for every such batch, also when the
\* directory holds no single-year file and when the loader skipped every file.
C17_ConsolidateCompletes ==
    continuity = "true" => error = "none" /\ pc # "failed"

----------------------------------------------------------------------------
(* get_historical_data                                                     *)

\* the series of a chart that holds the quotes of a quote type
SeriesOf(chart, quote_type) ==
    IF quote_type = "adjclose" THEN chart.adjclose ELSE chart.quote[quote_type]

\* C18: for each of the quote types open, close, high, low and adjclose,
\* get_historical_data returns one record per timestamp of the response,
\* holding the quote of the requested type at that timestamp.
C18_RequestedQuoteReturned ==
    (/\ pc = "returned"
     /\ argument.chart.status = "ok"
     /\ argument.quote_type \in {"open", "close", "high", "low", "adjclose"}) =>
        /\ Len(returned) = Len(argument.chart.timestamp)
        /\ \A i \in DOMAIN returned :
              returned[i].quote = SeriesOf(argument.chart, argument.quote_type)[i]

----------------------------------------------------------------------------
(* get_script_codes                                                        *)

\* the lower-case form of a character
LowerChar(c) == CASE c = "A" -> "a" [] c = "B" -> "b" [] OTHER -> c

\* two texts are equal ignoring case
EqualIgnoringCase(a, b) ==
    Len(a) = Len(b) /\ \A i \in DOMAIN a : LowerChar(a[i]) = LowerChar(b[i])

\* the positions of the fetched securities whose scrip_id is the ticker
Matches(ticker) ==
    { i \in DOMAIN argument.response.securities :
        EqualIgnoringCase(argument.response.securities[i].scrip_id, ticker) }

\* C19: get_script_codes returns a mapping whose keys are exactly the
\* requested tickers; a ticker maps to the script code of the first fetched
\* security whose scrip_id equals it ignoring case, to None when there is no
\* such security, and every ticker maps to None when the request or the
\* JSON parse failed.
C19_ScriptCodeOfFirstMatch ==
    pc = "returned" =>
        /\ DOMAIN returned = Range(argument.tickers)
        /\ \A ticker \in DOMAIN returned :
              IF argument.response.status = "ok" /\ Matches(ticker) # {}
              THEN LET first == CHOOSE i \in Matches(ticker) : \A j \in Matches(ticker) : i <= j
                   IN  returned[ticker] = argument.response.securities[first].SCRIP_CD
              ELSE returned[ticker] = "None"

\* ticker "a" is given the code of the first of two securities named "A" and
\* "a", and ticker "b" is not among the securities
C19_Witness ==
    /\ pc = "returned"
    /\ argument.tickers = << <<"a">>, <<"b">> >>
    /\ argument.response.status = "ok"
    /\ argument.response.securities =
          << [scrip_id |-> <<"A">>, SCRIP_CD |-> "500002"],
             [scrip_id |-> <<"a">>, SCRIP_CD |-> "500001"] >>
    /\ returned[<<"a">>] = "500002"
    /\ returned[<<"b">>] = "None"

----------------------------------------------------------------------------
(* load_all_files: the order of its stages                                 *)

\* the single-year file the pre-pass has to write a row of a two-year-named
\* file to: the file of the fiscal year of the row, which starts in April
PerYearName(name, row) ==
    [holder |-> name.holder, bank |-> name.bank,
     year |-> IF row.date.month >= 4 THEN row.date.year ELSE row.date.year - 1,
     ext |-> "csv"]

\* the files the pre-pass has to write, each with a row it has to hold: one
\* file per fiscal year of the rows of a two-year-named BOM file
SegregatedFiles ==
    UNION { { <<PerYearName(multi[i].name, multi[i].content.table[j]),
                multi[i].content.table[j]>> : j \in DOMAIN multi[i].content.table } :
            i \in { k \in DOMAIN multi : multi[k].name.bank = "BOM" } }

\* C20: the stages of load_all_files run in order.  The re-scan is taken
\* only when the pre-pass is over all two-year-named files and has written
\* every per-year file; validation runs on the listing of the re-scan, which
\* holds the files the pre-pass wrote; and a single-year file is loaded only
\* after validation has succeeded.
C20_StagesInOrder ==
    /\ pc = "prepass" => file_names = <<>> /\ continuity = "none" /\ statements = <<>>
    /\ pc = "validate" => todo = <<>> /\ continuity = "none" /\ statements = <<>>
    /\ (pc # "prepass" /\ error # "HTMLReadError") =>
          /\ Range(file_names) = DOMAIN disk
          /\ \A f \in SegregatedFiles :
                /\ f[1] \in Range(file_names)
                /\ f[2] \in Range(disk[f[1]].table)
    /\ statements # <<>> => continuity = "true"

\* both per-year files of a two-year-named BOM export have been loaded
C20_Witness ==
    /\ pc = "loaded"
    /\ multi # <<>>
    /\ \E i, j \in DOMAIN statements :
          /\ statements[i].key.bank = "BOM" /\ statements[i].key.year = 2022
          /\ statements[j].key.bank = "BOM" /\ statements[j].key.year = 2023

----------------------------------------------------------------------------
(* What the transforms leave in their arguments                            *)

\* C21: enrich_statements, merge_statements and enrich_merged_statement leave
\* the mapping they are called on as it was: over each of the three calls the
\* argument keeps its keys and every table of it its columns, rows and row
\* order.
C21_InputsUnchanged ==
    [][ /\ (pc = "loaded" /\ pc' = "enriched") => statements' = statements
        /\ (pc = "enriched" /\ pc' = "merged") => statements' = statements
        /\ (pc = "merged" /\ pc' = "synthesized") => bank_accounts' = bank_accounts ]_vars

----------------------------------------------------------------------------
(* segregate_statement                                                     *)

\* the label of the fiscal year a date falls in
LabelOfDate(date) ==
    LET s == IF date.month \in 1 .. 3 THEN date.year - 1 ELSE date.year
    IN  IntText(s) \o <<45>> \o IntText(s + 1)

\* the sum of f over the set S
RECURSIVE SumOver(_, _)
SumOver(S, f) ==
    IF S = {} THEN 0
    ELSE LET x == CHOOSE y \in S : TRUE IN f[x] + SumOver(S \ {x}, f)

\* C22: segregate_statement partitions its input.  No output table is empty,
\* every row of the table under a key has a date whose fiscal-year label is
\* the key, every input row is in the output tables together as often as it
\* is in the input and in one table only, and the row counts of the output
\* tables sum to the input row count.
C22_SegregatePartitions ==
    pc = "returned" =>
        /\ \A label \in DOMAIN returned :
              /\ returned[label] # <<>>
              /\ \A r \in Range(returned[label]) : LabelOfDate(r.date) = label
        /\ \A r \in Range(argument) :
              /\ LabelOfDate(r.date) \in DOMAIN returned
              /\ Occurrences(r, returned[LabelOfDate(r.date)]) = Occurrences(r, argument)
              /\ \A label \in DOMAIN returned :
                    label # LabelOfDate(r.date) => Occurrences(r, returned[label]) = 0
        /\ SumOver(DOMAIN returned, [label \in DOMAIN returned |-> Len(returned[label])])
              = Len(argument)

\* a table of three rows split into two fiscal years, the table of one year
\* holding a row of March next to a row of the April before it
C22_Witness ==
    /\ pc = "returned"
    /\ Len(argument) = 3
    /\ Cardinality(DOMAIN returned) = 2
    /\ \E label \in DOMAIN returned :
          /\ Len(returned[label]) = 2
          /\ returned[label][1].date = March31(2023)
          /\ returned[label][2].date = April1(2022)

----------------------------------------------------------------------------
(* The ledger against the source balances                                  *)

\* the rows of the files of stmts in chronological file order: the files by
\* fiscal year, the rows of a file in file order
RECURSIVE RowsByYear(_, _)
RowsByYear(stmts, S) ==
    IF S = {} THEN <<>>
    ELSE LET i == CHOOSE x \in S : \A y \in S : stmts[x].key.year <= stmts[y].key.year
         IN  stmts[i].table \o RowsByYear(stmts, S \ {i})

\* the source rows as they were handed to merge_statements
SourceRows == RowsByYear(argument, DOMAIN argument)

\* the rows are in date order and each balance is the balance of the row
\* before it plus the credit minus the debit
ConsistentSource(rows) ==
    \A i \in 2 .. Len(rows) :
        /\ ~TsLess(rows[i].date, rows[i - 1].date)
        /\ rows[i].balance = rows[i - 1].balance + rows[i].credit - rows[i].debit

\* the balance before each row is not negative: the account is never overdrawn
NeverOverdrawn(rows) ==
    \A i \in DOMAIN rows : rows[i].balance + rows[i].debit - rows[i].credit >= 0

\* C23: for a batch of a single account whose source rows carry balances
\* consistent with their file order, the balance on the last row of the
\* consolidated ledger is the source balance of the account's last
\* transaction, also when transactions share the earliest date.  (Stated
\* for accounts that are never overdrawn, whose opening row is a credit.)
C23_LastBalanceIsSourceBalance ==
    (/\ pc = "done"
     /\ Len(bank_accounts) = 1
     /\ ConsistentSource(SourceRows)
     /\ NeverOverdrawn(SourceRows)) =>
        ledger[Len(ledger)].balance = SourceRows[Len(SourceRows)].balance

\* C24: in the consolidated ledger the 'Balance brought forward' row of an
\* account comes before every other row of that account.
C24_OpeningRowFirst ==
    pc = "done" =>
        \A i, j \in DOMAIN ledger :
            (/\ ledger[i].description = "Balance brought forward"
             /\ ledger[j].description # "Balance brought forward"
             /\ ledger[j].bank = ledger[i].bank
             /\ ledger[j].account_holder = ledger[i].account_holder) => i < j

====
